---------------------------- MODULE Spec2Model ----------------------------
(***************************************************************************)
(* Stats aggregation and valuation pipeline of fantasy-data-store:         *)
(*   scripts/build_stats_and_usage.py  (weekly normalisation, scoring,     *)
(*                                      season rollup, usage shares)       *)
(*   scripts/trade_values.py           (z-score, trade value, ranks)       *)
(*                                                                         *)
(* Conventions.                                                            *)
(*  - A Python dict is a TLA+ function whose DOMAIN is the set of keys     *)
(*    present.  Keys are typed by name: the keys of StringKeys hold        *)
(*    strings, the keys of NestedKeys hold nested objects, every other     *)
(*    key holds a number.                                                  *)
(*  - None is the string None; str(None) is the string PyNoneStr.          *)
(*  - Scoring weights are in thousandths of a point, fantasy points and    *)
(*    per-game rates in hundredths, shares in tenths of a percent.         *)
(***************************************************************************)
EXTENDS Integers, Sequences, FiniteSets, TLC

VARIABLES
    pc,            \* position of the run
    idx,           \* position of the running loop
    \* build_week_stats
    league,        \* scoring_settings the league endpoint returned
    raw,           \* what the weekly stats endpoint returned
    catalog,       \* players catalog: id -> metadata
    sc,            \* merged scoring configuration
    rows,          \* result of fetch_week_stats
    out,           \* rows built by build_week_stats
    \* build_szn_to_date
    weekly_files,  \* the weekly record sets handed in
    wk,            \* position of the outer loop
    agg,           \* accumulators, in insertion order
    table,         \* the season-to-date table
    \* build_usage_shares
    week_rows,     \* the week's rows handed in
    totals_tgt,    \* team -> targets of the team
    totals_car,    \* team -> rushing attempts of the team
    shares,        \* the rows of the usage table
    \* trade_values.main
    players,       \* the season-to-date table loaded
    pos_pool,      \* position -> ppg values of the position, in table order
    z_ppg,         \* the z-score computed last
    values,        \* the rows of the trade-value table
    \* build_sos_defense_vs_pos
    history,       \* the weekly record sets handed in
    allowed,       \* accumulators per (opp, pos), in insertion order
    sos_table,     \* the defense-vs-position table
    \* main of build_stats_and_usage.py
    WEEK,          \* the current week
    feed,          \* week -> the rows build_week_stats returns for the week
    fetched,       \* the weeks build_week_stats was called for, in order
    weekly_rows,   \* the history: one record set per call
    szn,           \* players of the season-to-date payload
    usage,         \* players of the usage payload
    sos            \* defense_vs_pos of the strength-of-schedule payload

weekVars == <<league, raw, catalog, sc, rows, out>>
sznVars == <<weekly_files, wk, agg, table>>
usageVars == <<week_rows, totals_tgt, totals_car, shares>>

tradeVars == <<players, pos_pool, z_ppg, values>>

sosVars == <<history, allowed, sos_table>>

mainVars == <<WEEK, feed, fetched, weekly_rows, szn, usage, sos>>

vars == <<pc, idx, weekVars, sznVars, usageVars, tradeVars, sosVars, mainVars>>

-----------------------------------------------------------------------------
(* Bounds of the model *)

\* largest raw stat value enumerated
MaxStat == 2

-----------------------------------------------------------------------------
(* Python values *)

None == "<None>"
PyNoneStr == "None"

StringKeys == {"player_id", "name", "team", "player_team", "pos", "opp", "opponent",
               "full_name", "position"}
NestedKeys == {"player"}

\* d.get(k) for a string-typed key
get(d, k) == IF k \in DOMAIN d THEN d[k] ELSE None

\* truthiness of a string-typed value
truthy(v) == v # None /\ v # ""

\* a or b or ... over string-typed values: the first truthy operand, else the last
RECURSIVE py_or(_)
py_or(vs) ==
    IF Len(vs) = 1 THEN vs[1]
    ELSE IF truthy(vs[1]) THEN vs[1] ELSE py_or(Tail(vs))

\* str(v) of a string-typed value or None
py_str(v) == IF v = None THEN PyNoneStr ELSE v

\* _num(stats.get(k1) or stats.get(k2) or ...) for number-typed keys:
\* `or` skips an operand that is None or 0; _num maps a final None to 0.0
RECURSIVE num_or(_, _)
num_or(stats, ks) ==
    IF ks = <<>> THEN 0
    ELSE IF ks[1] \in DOMAIN stats /\ stats[ks[1]] # 0 THEN stats[ks[1]]
    ELSE num_or(stats, Tail(ks))

\* round(x, ndigits): the integer nearest num/den, num/den being the exact
\* operand in units of the last digit kept.  An exactly representable tie goes
\* to the even neighbour; at a decimal tie that is not exactly representable
\* the double nearest the operand decides, so the inputs enumerated below keep
\* clear of ties.
round_half_even(num, den) ==
    LET q == num \div den
        r == num % den
    IN  IF 2 * r < den THEN q
        ELSE IF 2 * r > den THEN q + 1
        ELSE IF q % 2 = 0 THEN q ELSE q + 1

-----------------------------------------------------------------------------
(* Scoring *)

ScoringKinds == <<"pass_yd", "pass_td", "pass_int", "rush_yd", "rush_td",
                  "rec", "rec_yd", "rec_td", "fumbles_lost", "two_pt">>

\* the keys fantasy_points reads for each kind, in the order it tries them
ScoringAliases ==
    [pass_yd      |-> <<"pass_yd", "pass_yds">>,
     pass_td      |-> <<"pass_td">>,
     pass_int     |-> <<"pass_int">>,
     rush_yd      |-> <<"rush_yd", "rush_yds">>,
     rush_td      |-> <<"rush_td">>,
     rec          |-> <<"rec", "receptions">>,
     rec_yd       |-> <<"rec_yd", "rec_yds">>,
     rec_td       |-> <<"rec_td">>,
     fumbles_lost |-> <<"fum_lost", "fumbles_lost">>,
     two_pt       |-> <<"two_pt", "two_ptm", "two_pt_conv">>]

\* the keys build_week_stats reads for the usage helpers
UsageAliases ==
    [targets  |-> <<"tgt", "targets">>,
     rush_att |-> <<"rush_att", "rushing_att", "att_rush">>]

\* built-in defaults of get_league_scoring, in thousandths
DefaultScoring ==
    [pass_yd |-> 40, pass_td |-> 4000, pass_int |-> -1000,
     rush_yd |-> 100, rush_td |-> 6000,
     rec |-> 1000, rec_yd |-> 100, rec_td |-> 6000,
     fumbles_lost |-> -2000, two_pt |-> 2000]

\* s.setdefault(k, v) for every default: league values win
get_league_scoring(s) == s @@ DefaultScoring

\* the term of fantasy_points for one kind, in thousandths
scoring_term(stats, s, kind) == num_or(stats, ScoringAliases[kind]) * s[kind]

RECURSIVE scoring_sum(_, _, _)
scoring_sum(stats, s, i) ==
    IF i = 0 THEN 0
    ELSE scoring_sum(stats, s, i - 1) + scoring_term(stats, s, ScoringKinds[i])

\* fantasy_points(stats, sc), in hundredths
fantasy_points(stats, s) ==
    round_half_even(scoring_sum(stats, s, Len(ScoringKinds)), 10)

-----------------------------------------------------------------------------
(* Weekly stats: fetch and normalise *)

\* {k:v for k,v in stats.items() if isinstance(v,(int,float,str))}
scalar_part(stats) == [k \in DOMAIN stats \ NestedKeys |-> stats[k]]

\* the loop of fetch_week_stats over raw.items(); an item is
\* [pid, stats, isdict], isdict telling whether the value under pid is a dict
RECURSIVE fetch_dict(_)
fetch_dict(items) ==
    IF items = <<>> THEN <<>>
    ELSE LET it   == items[1]
             rest == fetch_dict(Tail(items))
         IN  IF ~it.isdict THEN rest
             ELSE <<[player_id |-> py_str(it.pid)] @@ scalar_part(it.stats)>> \o rest

\* fetch_week_stats: `get(...) or {}` turns a failed request into {}
fetch_week_stats(src) ==
    CASE src.kind = "dict" -> fetch_dict(src.items)
      [] src.kind = "list" -> src.items
      [] OTHER             -> <<>>

\* the numeric items of r whose key is not yet in row
numeric_part(r, taken) ==
    [k \in (DOMAIN r \ (StringKeys \cup NestedKeys)) \ taken |-> r[k]]

\* one iteration of the loop of build_week_stats
week_row(r, cat, s) ==
    LET pid  == get(r, "player_id")
        meta == IF truthy(pid) /\ py_str(pid) \in DOMAIN cat
                THEN cat[py_str(pid)] ELSE <<>>
        name == py_or(<<get(meta, "full_name"), get(meta, "name")>>)
        team == py_or(<<get(r, "team"), get(r, "player_team"), get(meta, "team")>>)
        pos  == get(meta, "position")
        opp  == py_or(<<get(r, "opponent"), get(r, "opp")>>)
        base == [player_id |-> py_str(pid), name |-> name, team |-> team,
                 pos |-> pos, opp |-> opp]
        row0 == base @@ numeric_part(r, DOMAIN base)
        row1 == [targets  |-> num_or(r, UsageAliases["targets"]),
                 rush_att |-> num_or(r, UsageAliases["rush_att"])] @@ row0
    IN  [fantasy_pts |-> fantasy_points(row1, s)] @@ row1

-----------------------------------------------------------------------------
(* Inputs enumerated for one week *)

Range(f) == {f[i] : i \in DOMAIN f}

StatValues == 0..MaxStat

AliasLists == Range(ScoringAliases) \cup Range(UsageAliases)

\* raw stats that spell one kind in every combination of its aliases
StatVariants ==
    UNION {UNION {[D -> StatValues] : D \in SUBSET Range(al)} : al \in AliasLists}

RawMeta == [name |-> "Raw Name", team |-> "DAL", player_team |-> "NYG",
            pos |-> "WR", opp |-> "PHI", opponent |-> "WAS"]

\* raw records that supply every combination of the descriptive keys
MetaVariants ==
    {[k \in D |-> RawMeta[k]] @@ [rec |-> 1] : D \in SUBSET DOMAIN RawMeta}

SmallRecords == {[rec |-> 1], [pass_td |-> 1, player |-> <<"nested">>]}

Catalogs ==
    {<<>>,
     [p1 |-> [full_name |-> "Cat One", team |-> "SEA", position |-> "QB"]],
     [p1 |-> [name |-> "Cat Alt", team |-> ""],
      p2 |-> [full_name |-> "Cat Two", name |-> "Two", position |-> "RB"]]}

Leagues == {<<>>, [pass_yd |-> 33, pass_td |-> 6000], [rec |-> 500, two_pt |-> 0]}

Item(p, st, d) == [pid |-> p, stats |-> st, isdict |-> d]

WithId(r, id) == IF id = None THEN r ELSE [player_id |-> id] @@ r

DictSource(items) == [kind |-> "dict", items |-> items]
ListSource(items) == [kind |-> "list", items |-> items]
FailedSource == [kind |-> "fail", items |-> <<>>]

\* one record, every stat spelling, both shapes of the source
StatSources ==
    {DictSource(<<Item("p1", v, TRUE)>>) : v \in StatVariants}
    \cup {ListSource(<<WithId(v, "p1")>>) : v \in StatVariants}

\* one record, every combination of descriptive keys, with and without identity
MetaSources ==
    {DictSource(<<Item("p1", v, TRUE)>>) : v \in MetaVariants}
    \cup {ListSource(<<WithId(v, id)>>) : v \in MetaVariants, id \in {None, "p1"}}

\* two records, every combination of identities
IdentitySources ==
    {DictSource(<<Item("p1", a, TRUE), Item("p2", b, d)>>) :
        a \in SmallRecords, b \in SmallRecords, d \in BOOLEAN}
    \cup {ListSource(<<WithId(a, i), WithId(b, j)>>) :
        a \in SmallRecords, b \in SmallRecords,
        i \in {None, "p1"}, j \in {None, "p1", "p2"}}
    \cup {DictSource(<<>>), ListSource(<<>>), FailedSource}

-----------------------------------------------------------------------------
(* build_week_stats as a state machine *)

\* the variables of the other operations, while they do not run
IdleWeek ==
    league = <<>> /\ raw = FailedSource /\ catalog = <<>> /\ sc = <<>>
    /\ rows = <<>> /\ out = <<>>

IdleSzn == weekly_files = <<>> /\ wk = 0 /\ agg = <<>> /\ table = <<>>

IdleUsage == week_rows = <<>> /\ totals_tgt = <<>> /\ totals_car = <<>> /\ shares = <<>>

\* a z-score of 0.0, see zscore
ZeroZ == [sign |-> 0, num |-> 0, den |-> 1]

IdleTrade == players = <<>> /\ pos_pool = <<>> /\ z_ppg = ZeroZ /\ values = <<>>

IdleSos == history = <<>> /\ allowed = <<>> /\ sos_table = <<>>

IdleMain ==
    /\ WEEK = 0 /\ feed = <<>> /\ fetched = <<>> /\ weekly_rows = <<>>
    /\ szn = <<>> /\ usage = <<>> /\ sos = <<>>

Init ==
    /\ pc = "scoring"
    /\ \/ raw \in StatSources /\ league \in Leagues /\ catalog = <<>>
       \/ raw \in MetaSources /\ league = <<>> /\ catalog \in Catalogs
       \/ raw \in IdentitySources /\ league = <<>> /\ catalog \in Catalogs
    /\ sc = <<>>
    /\ rows = <<>>
    /\ idx = 0
    /\ out = <<>>
    /\ IdleSzn
    /\ IdleUsage
    /\ IdleTrade
    /\ IdleSos
    /\ IdleMain

\* sc = get_league_scoring()
GetLeagueScoring ==
    /\ pc = "scoring"
    /\ sc' = get_league_scoring(league)
    /\ pc' = "fetch"
    /\ UNCHANGED <<idx, league, raw, catalog, rows, out, sznVars, usageVars, tradeVars, sosVars, mainVars>>

\* rows = fetch_week_stats(season, week)
FetchWeekStats ==
    /\ pc = "fetch"
    /\ rows' = fetch_week_stats(raw)
    /\ idx' = 1
    /\ pc' = "build"
    /\ UNCHANGED <<league, raw, catalog, sc, out, sznVars, usageVars, tradeVars, sosVars, mainVars>>

\* one iteration of `for r in rows`
BuildWeekRow ==
    /\ pc = "build"
    /\ idx <= Len(rows)
    /\ out' = Append(out, week_row(rows[idx], catalog, sc))
    /\ idx' = idx + 1
    /\ UNCHANGED <<pc, league, raw, catalog, sc, rows, sznVars, usageVars, tradeVars, sosVars, mainVars>>

\* return out
BuildWeekReturn ==
    /\ pc = "build"
    /\ idx > Len(rows)
    /\ pc' = "done"
    /\ UNCHANGED <<idx, weekVars, sznVars, usageVars, tradeVars, sosVars, mainVars>>

Next ==
    \/ GetLeagueScoring
    \/ FetchWeekStats
    \/ BuildWeekRow
    \/ BuildWeekReturn

Spec == Init /\ [][Next]_vars

-----------------------------------------------------------------------------
(* Claims about build_week_stats *)

\* the alias rule as specified: the value of the first alias that is present
\* in the record, whatever that value is, and 0 when none is present
RECURSIVE first_present(_, _)
first_present(stats, ks) ==
    IF ks = <<>> THEN 0
    ELSE IF ks[1] \in DOMAIN stats THEN stats[ks[1]]
    ELSE first_present(stats, Tail(ks))

RECURSIVE specified_sum(_, _, _)
specified_sum(stats, s, i) ==
    IF i = 0 THEN 0
    ELSE specified_sum(stats, s, i - 1)
         + first_present(stats, ScoringAliases[ScoringKinds[i]]) * s[ScoringKinds[i]]

\* C1: every row build_week_stats outputs has fantasy_pts equal to the sum over
\* the ten recognized kinds of (the row's value for the kind, 0 when absent)
\* times the configured weight, rounded to 2 decimals.
C1_FantasyPtsIsWeightedSum ==
    pc = "done" =>
        \A i \in 1..Len(out) :
            out[i].fantasy_pts
                = round_half_even(specified_sum(out[i], sc, Len(ScoringKinds)), 10)

\* C5: a raw record without a resolvable player identity is dropped: the output
\* has one row per fetched record that carries a player_id and no row with a
\* placeholder identity.
C5_RecordWithoutIdentityDropped ==
    pc = "done" =>
        /\ Len(out) = Cardinality({i \in 1..Len(rows) : truthy(get(rows[i], "player_id"))})
        /\ \A i \in 1..Len(out) : out[i].player_id \notin {PyNoneStr, None, ""}

\* C6: for every kind with several spellings the value read is that of the
\* first alias present in the record (0 included), 0 only when none is present.
C6_FirstPresentAliasIsRead ==
    pc = "done" =>
        \A i \in 1..Len(out) :
            /\ \A kind \in Range(ScoringKinds) :
                   num_or(out[i], ScoringAliases[kind])
                       = first_present(out[i], ScoringAliases[kind])
            /\ out[i].targets = first_present(rows[i], UsageAliases["targets"])
            /\ out[i].rush_att = first_present(rows[i], UsageAliases["rush_att"])

\* C9: within the rows build_week_stats outputs for one week, player_id is unique.
C9_PlayerIdUniqueInWeek ==
    pc = "done" =>
        \A i, j \in 1..Len(out) : i # j => out[i].player_id # out[j].player_id

\* the value C10 specifies: the raw value when supplied, else the catalog's
prefers_raw(got, rawv, catv) ==
    IF truthy(rawv) THEN got = rawv
    ELSE IF truthy(catv) THEN got = catv
    ELSE ~truthy(got)

\* C10: name, team and pos take the raw record's value when the raw record
\* supplies it and the catalog's value only when it does not (blank when neither
\* has it); opp is taken from the raw record only.
C10_MetadataPrefersRawRecord ==
    pc = "done" =>
        \A i \in 1..Len(out) :
            LET r    == rows[i]
                pid  == get(r, "player_id")
                meta == IF py_str(pid) \in DOMAIN catalog THEN catalog[py_str(pid)] ELSE <<>>
            IN  /\ prefers_raw(out[i].name, get(r, "name"),
                               py_or(<<get(meta, "full_name"), get(meta, "name")>>))
                /\ prefers_raw(out[i].team,
                               py_or(<<get(r, "team"), get(r, "player_team")>>),
                               get(meta, "team"))
                /\ prefers_raw(out[i].pos, get(r, "pos"), get(meta, "position"))
                /\ prefers_raw(out[i].opp,
                               py_or(<<get(r, "opponent"), get(r, "opp")>>), None)

-----------------------------------------------------------------------------
(* Python ordering of the strings used, and list.sort *)

\* every string of the model, in ascending order of Python's str comparison
StrOrder == <<"", "Al", "Bo", "Cy", "QB", "RB">>

str_rank(v) == CHOOSE i \in 1..Len(StrOrder) : StrOrder[i] = v

\* a < b for two key tuples of numbers, as Python compares tuples
RECURSIVE key_lt(_, _)
key_lt(a, b) ==
    IF a = <<>> \/ b = <<>> THEN a = <<>> /\ b # <<>>
    ELSE IF a[1] = b[1] THEN key_lt(Tail(a), Tail(b))
    ELSE a[1] < b[1]

\* list.sort(key=...) over pairs [k |-> key, v |-> element]; the sort is
\* stable: an element goes behind every element whose key is not greater
RECURSIVE insert_sorted(_, _)
insert_sorted(x, sorted) ==
    IF sorted = <<>> THEN <<x>>
    ELSE IF key_lt(x.k, sorted[1].k) THEN <<x>> \o sorted
    ELSE <<sorted[1]>> \o insert_sorted(x, Tail(sorted))

RECURSIVE sort_pairs(_)
sort_pairs(xs) ==
    IF xs = <<>> THEN <<>>
    ELSE insert_sorted(xs[Len(xs)], sort_pairs(SubSeq(xs, 1, Len(xs) - 1)))

sorted_values(xs) == LET ps == sort_pairs(xs) IN [i \in 1..Len(ps) |-> ps[i].v]

-----------------------------------------------------------------------------
(* build_szn_to_date *)

max(a, b) == IF a >= b THEN a ELSE b

\* _num(r.get(k)) for a number-typed key
num_get(r, k) == IF k \in DOMAIN r THEN r[k] ELSE 0

\* the defaultdict's factory
new_agg(pid) ==
    [player_id |-> pid, games |-> 0, fantasy_pts |-> 0, targets |-> 0,
     rush_att |-> 0, pos |-> None, name |-> None]

\* position of pid in agg, 0 when it has no entry yet
agg_index(a, pid) ==
    IF \E i \in 1..Len(a) : a[i].player_id = pid
    THEN CHOOSE i \in 1..Len(a) : a[i].player_id = pid
    ELSE 0

\* the body of the inner loop with `r.get("name") or a["name"]`: a later
\* record's name and pos replace the ones recorded
szn_record_last_wins(a, r) ==
    LET pid  == r.player_id
        a1   == IF agg_index(a, pid) = 0 THEN Append(a, new_agg(pid)) ELSE a
        i    == agg_index(a1, pid)
        e    == a1[i]
    IN  [a1 EXCEPT ![i] =
            [e EXCEPT !.games       = @ + 1,
                      !.fantasy_pts = @ + num_get(r, "fantasy_pts"),
                      !.targets     = @ + num_get(r, "targets"),
                      !.rush_att    = @ + num_get(r, "rush_att"),
                      !.pos         = py_or(<<get(r, "pos"), @>>),
                      !.name        = py_or(<<get(r, "name"), @>>)]]

\* the body of the inner loop of build_szn_to_date
szn_record(a, r) ==
    LET pid  == r.player_id
        a1   == IF agg_index(a, pid) = 0 THEN Append(a, new_agg(pid)) ELSE a
        i    == agg_index(a1, pid)
        e    == a1[i]
    IN  [a1 EXCEPT ![i] =
            [e EXCEPT !.games       = @ + 1,
                      !.fantasy_pts = @ + num_get(r, "fantasy_pts"),
                      !.targets     = @ + num_get(r, "targets"),
                      !.rush_att    = @ + num_get(r, "rush_att"),
                      !.pos         = py_or(<<@, get(r, "pos")>>),
                      !.name        = py_or(<<@, get(r, "name")>>)]]

\* one row of the table; fantasy_pts and the rates are in hundredths
szn_row(e) ==
    LET g == max(1, e.games)
    IN  [player_id   |-> e.player_id,
         name        |-> e.name,
         pos         |-> e.pos,
         games       |-> e.games,
         ppg         |-> round_half_even(e.fantasy_pts, g),
         tgt_pg      |-> round_half_even(e.targets * 100, g),
         rush_att_pg |-> round_half_even(e.rush_att * 100, g)]

\* key=lambda x: (-x["ppg"], x["name"] or "")
szn_key(x) == <<-x.ppg, str_rank(py_or(<<x.name, "">>))>>

\* the table, built in the order of agg and then sorted
szn_table(a) ==
    sorted_values([i \in 1..Len(a) |->
                      [k |-> szn_key(szn_row(a[i])), v |-> szn_row(a[i])]])

(* Inputs: weekly record sets as build_week_stats leaves them.  A set may hold
   one player_id twice, which build_week_stats allows when the source returns
   a list. *)

\* number of weekly sets handed to build_szn_to_date
MaxWeeks == 2

SznShapes ==
    {[name |-> None, pos |-> None, opp |-> "PHI", fantasy_pts |-> 100,
      targets |-> 1, rush_att |-> 0],
     [name |-> "Al", pos |-> "QB", opp |-> "PHI", fantasy_pts |-> 248,
      targets |-> 0, rush_att |-> 2],
     [name |-> "Bo", pos |-> "RB", opp |-> None, fantasy_pts |-> 0,
      targets |-> 2, rush_att |-> 1]}

SznRows == {[player_id |-> id, team |-> "DAL"] @@ sh : id \in {"p1", "p2"}, sh \in SznShapes}

\* sets of up to two records; a set of two starts with a record of p1
WeekSets ==
    {ws \in UNION {[1..k -> SznRows] : k \in {0, 1, 2}} :
        Len(ws) = 2 => ws[1].player_id = "p1"}

InitSzn ==
    /\ pc = "szn"
    /\ weekly_files \in [1..MaxWeeks -> WeekSets]
    /\ wk = 1
    /\ idx = 1
    /\ agg = <<>>
    /\ table = <<>>
    /\ IdleWeek
    /\ IdleUsage
    /\ IdleTrade
    /\ IdleSos
    /\ IdleMain

\* `for rows in weekly_files`: the next set, when the current one is used up
SznNextWeek ==
    /\ pc = "szn"
    /\ wk <= Len(weekly_files)
    /\ idx > Len(weekly_files[wk])
    /\ wk' = wk + 1
    /\ idx' = 1
    /\ UNCHANGED <<pc, weekly_files, agg, table, weekVars, usageVars, tradeVars, sosVars, mainVars>>

\* `for r in rows`: one record
SznRecord ==
    /\ pc = "szn"
    /\ wk <= Len(weekly_files)
    /\ idx <= Len(weekly_files[wk])
    /\ agg' = szn_record(agg, weekly_files[wk][idx])
    /\ idx' = idx + 1
    /\ UNCHANGED <<pc, weekly_files, wk, table, weekVars, usageVars, tradeVars, sosVars, mainVars>>

\* the table is built, sorted and returned
SznTable ==
    /\ pc = "szn"
    /\ wk > Len(weekly_files)
    /\ table' = szn_table(agg)
    /\ pc' = "szn_done"
    /\ UNCHANGED <<idx, weekly_files, wk, agg, weekVars, usageVars, tradeVars, sosVars, mainVars>>

NextSzn == SznNextWeek \/ SznRecord \/ SznTable

SpecSzn == InitSzn /\ [][NextSzn]_vars

RECURSIVE sum_seq(_)
sum_seq(xs) == IF xs = <<>> THEN 0 ELSE xs[1] + sum_seq(Tail(xs))

\* the weekly sets in which pid appears
weeks_with(pid) ==
    {w \in 1..Len(weekly_files) :
        \E i \in 1..Len(weekly_files[w]) : weekly_files[w][i].player_id = pid}

\* the fantasy_pts of pid's records in one weekly set
points_in(w, pid) ==
    sum_seq([i \in 1..Len(weekly_files[w]) |->
                IF weekly_files[w][i].player_id = pid
                THEN weekly_files[w][i].fantasy_pts ELSE 0])

points_of(pid) == sum_seq([w \in 1..Len(weekly_files) |-> points_in(w, pid)])

\* C2: for every player_id occurring in the weekly sets the output row's games
\* is the number of weekly sets in which the id appears, and ppg is the sum of
\* the player's fantasy_pts over those sets divided by that count, rounded to 2
\* decimals.
C2_GamesCountsWeeklySets ==
    pc = "szn_done" =>
        /\ \A w \in 1..Len(weekly_files) : \A i \in 1..Len(weekly_files[w]) :
               \E t \in 1..Len(table) : table[t].player_id = weekly_files[w][i].player_id
        /\ \A t \in 1..Len(table) :
               LET pid == table[t].player_id
                   n   == Cardinality(weeks_with(pid))
               IN  /\ table[t].games = n
                   /\ table[t].ppg = round_half_even(points_of(pid), n)

-----------------------------------------------------------------------------
(* build_usage_shares *)

\* totals[team] += x on a defaultdict(float)
add_total(totals, team, x) ==
    IF team \in DOMAIN totals
    THEN [totals EXCEPT ![team] = @ + x]
    ELSE [t \in {team} |-> x] @@ totals

\* the condition under which a share is computed by division
share_guard_nonneg(tot) == tot >= 0
share_guard(tot) == tot > 0

\* round((x / tot) * 100.0, 1) if tot > 0 else 0.0, in tenths of a percent;
\* raised tells that the division was reached with tot = 0
usage_share_ceil(x, tot) ==
    IF ~share_guard(tot) THEN [raised |-> FALSE, value |-> 0]
    ELSE IF tot = 0 THEN [raised |-> TRUE, value |-> 0]
    ELSE [raised |-> FALSE, value |-> (x * 1000 + tot - 1) \div tot]
usage_share(x, tot) ==
    IF ~share_guard(tot) THEN [raised |-> FALSE, value |-> 0]
    ELSE IF tot = 0 THEN [raised |-> TRUE, value |-> 0]
    ELSE [raised |-> FALSE, value |-> round_half_even(x * 1000, tot)]

\* the row the second loop appends for r
usage_row(r, tgt, car) ==
    [player_id    |-> r.player_id,
     name         |-> get(r, "name"),
     team         |-> get(r, "team"),
     pos          |-> get(r, "pos"),
     targets      |-> num_get(r, "targets"),
     rush_att     |-> num_get(r, "rush_att"),
     target_share |-> usage_share(num_get(r, "targets"), tgt[get(r, "team")]).value,
     carry_share  |-> usage_share(num_get(r, "rush_att"), car[get(r, "team")]).value]

\* whether building the row of r raises ZeroDivisionError
usage_raises(r, tgt, car) ==
    \/ usage_share(num_get(r, "targets"), tgt[get(r, "team")]).raised
    \/ usage_share(num_get(r, "rush_att"), car[get(r, "team")]).raised

(* Inputs: one week's rows.  Usage counts are natural numbers, and the team
   totals are small enough that a share falls on a rounding tie only where the
   quotient is exactly representable. *)

\* most rows in the week
MaxPlayers == 3
\* largest usage count of one player
MaxUse == 3

PlayerIds == [i \in 1..(MaxPlayers + 1) |-> <<"p1", "p2", "p3", "p4", "p5">>[i]]

UsageShapes ==
    UNION {{[team |-> "DAL", targets |-> t, rush_att |-> c] : c \in {0, MaxUse - t}}
           : t \in 0..MaxUse}
    \cup {[team |-> None, targets |-> 1, rush_att |-> 1],
          [team |-> "NYG", targets |-> 1, rush_att |-> 0]}

UsageWeeks ==
    UNION {{[i \in 1..n |-> [player_id |-> PlayerIds[i], name |-> None, pos |-> None]
                             @@ shp[i]] : shp \in [1..n -> UsageShapes]}
           : n \in 0..MaxPlayers}

InitUsage ==
    /\ pc = "usage_totals"
    /\ week_rows \in UsageWeeks
    /\ idx = 1
    /\ totals_tgt = <<>>
    /\ totals_car = <<>>
    /\ shares = <<>>
    /\ IdleWeek
    /\ IdleSzn
    /\ IdleTrade
    /\ IdleSos
    /\ IdleMain

\* first loop, one row: rows without a team are skipped
UsageTotalsRow ==
    /\ pc = "usage_totals"
    /\ idx <= Len(week_rows)
    /\ LET r == week_rows[idx]
           team == get(r, "team")
       IN  IF ~truthy(team)
           THEN UNCHANGED <<totals_tgt, totals_car>>
           ELSE /\ totals_tgt' = add_total(totals_tgt, team, num_get(r, "targets"))
                /\ totals_car' = add_total(totals_car, team, num_get(r, "rush_att"))
    /\ idx' = idx + 1
    /\ UNCHANGED <<pc, week_rows, shares, weekVars, sznVars, tradeVars, sosVars, mainVars>>

\* the first loop ends, the second begins
UsageTotalsDone ==
    /\ pc = "usage_totals"
    /\ idx > Len(week_rows)
    /\ pc' = "usage_shares"
    /\ idx' = 1
    /\ UNCHANGED <<usageVars, weekVars, sznVars, tradeVars, sosVars, mainVars>>

\* second loop, one row
UsageShareRow ==
    /\ pc = "usage_shares"
    /\ idx <= Len(week_rows)
    /\ LET r == week_rows[idx]
       IN  IF ~truthy(get(r, "team"))
           THEN UNCHANGED <<pc, shares>>
           ELSE IF usage_raises(r, totals_tgt, totals_car)
           THEN pc' = "raised" /\ UNCHANGED shares
           ELSE /\ shares' = Append(shares, usage_row(r, totals_tgt, totals_car))
                /\ UNCHANGED pc
    /\ idx' = idx + 1
    /\ UNCHANGED <<week_rows, totals_tgt, totals_car, weekVars, sznVars, tradeVars, sosVars, mainVars>>

\* return the table
UsageReturn ==
    /\ pc = "usage_shares"
    /\ idx > Len(week_rows)
    /\ pc' = "usage_done"
    /\ UNCHANGED <<idx, usageVars, weekVars, sznVars, tradeVars, sosVars, mainVars>>

NextUsage == UsageTotalsRow \/ UsageTotalsDone \/ UsageShareRow \/ UsageReturn

SpecUsage == InitUsage /\ [][NextUsage]_vars

\* the teams of the usage table
share_teams == {shares[i].team : i \in 1..Len(shares)}

team_rows(team) == {i \in 1..Len(shares) : shares[i].team = team}

\* the week's total of a usage count over the rows of a team
week_total(team, kind) ==
    sum_seq([i \in 1..Len(week_rows) |->
                IF get(week_rows[i], "team") = team THEN week_rows[i][kind] ELSE 0])

share_sum(team, kind) ==
    sum_seq([i \in 1..Len(shares) |->
                IF shares[i].team = team THEN shares[i][kind] ELSE 0])

\* C3 as stated: for every team the rounded target_share values of its players
\* sum to at most 100.0, and so do the rounded carry_share values.
C3_SharesSumAtMost100 ==
    pc = "usage_done" =>
        \A team \in share_teams :
            /\ share_sum(team, "target_share") <= 1000
            /\ share_sum(team, "carry_share") <= 1000

\* C3 amended: each share is rounded to the nearest tenth, so the rounded shares
\* of a team with k rows sum to at most 100.0 + 0.05 * k (usage counts being
\* natural numbers), for target_share and for carry_share.
C3_SharesSumWithinRounding ==
    pc = "usage_done" =>
        \A team \in share_teams :
            LET k == Cardinality(team_rows(team))
            IN  /\ 2 * share_sum(team, "target_share") <= 2000 + k
                /\ 2 * share_sum(team, "carry_share") <= 2000 + k

\* a team of three whose three rounded target shares exceed 100.0 together
C3_Witness ==
    /\ pc = "usage_done"
    /\ \E team \in share_teams :
          /\ Cardinality(team_rows(team)) = 3
          /\ share_sum(team, "target_share") > 1000

\* C4: whenever a team's week total of targets is 0 every row of the team has
\* target_share 0.0, and whenever its total of rush_att is 0 every row has
\* carry_share 0.0; no input makes the function raise a division error.
C4_ZeroTotalGivesZeroShare ==
    /\ pc # "raised"
    /\ \A i \in 1..Len(shares) :
          /\ week_total(shares[i].team, "targets") = 0 => shares[i].target_share = 0
          /\ week_total(shares[i].team, "rush_att") = 0 => shares[i].carry_share = 0

\* a finished table with a row of a team that has no targets but has carries
C4_Witness ==
    /\ pc = "usage_done"
    /\ \E i \in 1..Len(shares) :
          /\ week_total(shares[i].team, "targets") = 0
          /\ week_total(shares[i].team, "rush_att") > 0
          /\ shares[i].target_share = 0
          /\ shares[i].carry_share > 0

-----------------------------------------------------------------------------
(* Python floats: IEEE 754 binary64, round to nearest, ties to even.
   A positive float is [m |-> its 53 significand bits, most significant first,
   e |-> the exponent of the last bit]; zero has no bits.  Only the operations
   zscore needs for its mean are carried bit by bit; exponent range is not
   modelled (the values are far from overflow and underflow). *)

\* sys.float_info.mant_dig
MantBits == 53

FZero == [m |-> <<>>, e |-> 0]

zeros(k) == [i \in 1..k |-> 0]

\* the binary digits of a natural number, most significant first
RECURSIVE nat_bits(_)
nat_bits(n) == IF n = 0 THEN <<>> ELSE Append(nat_bits(n \div 2), n % 2)

\* b without its leading zero bits
strip_zeros(b) ==
    IF \A i \in 1..Len(b) : b[i] = 0 THEN <<>>
    ELSE LET k == CHOOSE i \in 1..Len(b) : b[i] = 1 /\ \A j \in 1..(i - 1) : b[j] = 0
         IN  SubSeq(b, k, Len(b))

\* a + b + c for bit strings of one length and a carry c: the sum bits of that
\* length and the carry out, the low half first
RECURSIVE add_bits(_, _, _)
add_bits(a, b, c) ==
    IF c > 1 \/ a = <<>> THEN [s |-> <<>>, c |-> c]
    ELSE IF Len(a) = 1
    THEN [s |-> <<(a[1] + b[1] + c) % 2>>, c |-> (a[1] + b[1] + c) \div 2]
    ELSE LET n  == Len(a)
             h  == n \div 2
             lo == add_bits(SubSeq(a, h + 1, n), SubSeq(b, h + 1, n), c)
             hi == add_bits(SubSeq(a, 1, h), SubSeq(b, 1, h), lo.c)
         IN  [s |-> hi.s \o lo.s, c |-> hi.c]

\* a + b + c with the carry out as the leading bit
sum_bits(a, b, c) == LET t == add_bits(a, b, c) IN <<t.c>> \o t.s

\* quotient bits and remainder of (r * 2^Len(b) + b) divided by n, for r < n,
\* the high half first
RECURSIVE long_div(_, _, _)
long_div(b, n, r) ==
    IF r >= n \/ b = <<>> THEN [q |-> <<>>, r |-> r]
    ELSE IF Len(b) = 1
    THEN LET cur == 2 * r + b[1]
         IN  IF cur >= n THEN [q |-> <<1>>, r |-> cur - n] ELSE [q |-> <<0>>, r |-> cur]
    ELSE LET h  == Len(b) \div 2
             hi == long_div(SubSeq(b, 1, h), n, r)
             lo == long_div(SubSeq(b, h + 1, Len(b)), n, hi.r)
         IN  [q |-> hi.q \o lo.q, r |-> lo.r]

\* the float nearest to b * 2^e (+ a positive amount below the last bit when
\* sticky): round to nearest, ties to even
fl_round(b0, e, sticky) ==
    LET b == strip_zeros(b0)
        n == Len(b)
    IN  IF n = 0 THEN FZero
        ELSE IF n <= MantBits
        THEN [m |-> b \o zeros(MantBits - n), e |-> e - (MantBits - n)]
        ELSE LET keep  == SubSeq(b, 1, MantBits)
                 guard == b[MantBits + 1]
                 rest  == sticky \/ \E i \in (MantBits + 2)..n : b[i] = 1
                 up    == guard = 1 /\ (rest \/ keep[MantBits] = 1)
                 r     == IF up THEN strip_zeros(sum_bits(keep, zeros(MantBits), 1))
                          ELSE keep
                 e1    == e + (n - MantBits)
             IN  IF Len(r) > MantBits
                 THEN [m |-> SubSeq(r, 1, MantBits), e |-> e1 + 1]
                 ELSE [m |-> r, e |-> e1]

\* x + y
fl_add(x, y) ==
    IF x.m = <<>> THEN y
    ELSE IF y.m = <<>> THEN x
    ELSE LET e  == IF x.e <= y.e THEN x.e ELSE y.e
             xa == x.m \o zeros(x.e - e)
             ya == y.m \o zeros(y.e - e)
             n  == max(Len(xa), Len(ya))
         IN  fl_round(sum_bits(zeros(n - Len(xa)) \o xa, zeros(n - Len(ya)) \o ya, 0),
                      e, FALSE)

\* (b * 2^e) / n for a natural number n >= 1, correctly rounded; the dividend
\* is extended by 64 bits so that the quotient holds the rounding bits
fl_div(b, e, n) ==
    LET p == long_div(b \o zeros(64), n, 0)
    IN  fl_round(p.q, e - 64, p.r # 0)

\* x / n, n = len(vals)
fl_div_nat(x, n) == IF x.m = <<>> THEN FZero ELSE fl_div(x.m, x.e, n)

\* the float that round(x, 2) returns for the decimal h / 100
from_hundredths(h) == fl_div(nat_bits(h), 0, 100)

\* x < y
fl_lt(x, y) ==
    IF y.m = <<>> THEN FALSE
    ELSE IF x.m = <<>> THEN TRUE
    ELSE IF x.e # y.e THEN x.e < y.e
    ELSE \E i \in 1..MantBits :
             /\ x.m[i] < y.m[i]
             /\ \A j \in 1..(i - 1) : x.m[j] = y.m[j]

\* sum(vals): 0 + vals[1] + vals[2] + ... from left to right
RECURSIVE fl_sum(_)
fl_sum(xs) ==
    IF xs = <<>> THEN FZero
    ELSE fl_add(fl_sum(SubSeq(xs, 1, Len(xs) - 1)), xs[Len(xs)])

-----------------------------------------------------------------------------
(* trade_values.py *)

(* zscore(vals, v) for ppg values given in hundredths.  The mean m is computed
   in floats as the code computes it; every x - m and v - m is then either
   exactly zero or a non-zero float, and the sum of squares is zero exactly
   when every x equals m, which is when `or 1.0` replaces the deviation.
   The result is [sign, num, den] for z = sign * sqrt(num / den); a non-zero
   sign with num = 0 is a z of rounding-error size (below 1e-12).  With
   S = sum of the hundredths and n = len(vals), the exact ratio is
   (n*v - S)^2 * max(1, n-1) / sum((n*x - S)^2); when every x is the same
   number and m is not that number, each x - m is the same rounding error and
   the ratio is max(1, n-1) / n. *)
zscore(vals, v) ==
    IF vals = <<>> THEN ZeroZ
    ELSE LET n    == Len(vals)
             xs   == [i \in 1..n |-> from_hundredths(vals[i])]
             m    == fl_div_nat(fl_sum(xs), n)
             fv   == from_hundredths(v)
             sgn  == IF fv = m THEN 0 ELSE IF fl_lt(fv, m) THEN -1 ELSE 1
             S    == sum_seq(vals)
             A    == n * v - S
             B    == sum_seq([i \in 1..n |-> (n * vals[i] - S) * (n * vals[i] - S)])
             d    == max(1, n - 1)
         IN  IF sgn = 0 THEN ZeroZ
             ELSE IF \A i \in 1..n : xs[i] = m
             THEN [sign |-> sgn, num |-> A * A, den |-> 10000 * n * n]
             ELSE IF B = 0 THEN [sign |-> sgn, num |-> d, den |-> n]
             ELSE [sign |-> sgn, num |-> A * A * d, den |-> B]

\* round(15 * |z|, 1) in tenths: the integer nearest to 150 * sqrt(num / den)
z_term(z) ==
    IF z.num = 0 THEN 0
    ELSE CHOOSE r \in 0..600 :
             /\ r = 0 \/ (2 * r - 1) * (2 * r - 1) * z.den <= 90000 * z.num
             /\ 90000 * z.num < (2 * r + 1) * (2 * r + 1) * z.den

\* round(50 + 15*z_ppg + 2*tgt + 1.5*car, 1) in tenths, for per-game rates in
\* hundredths that make 2*tgt + 1.5*car a whole number of tenths
trade_value(z, tgt, car) == 500 + (20 * tgt + 15 * car) \div 100 + z.sign * z_term(z)

\* the dict appended to values
trade_row(p, z) ==
    [player_id |-> p.player_id, name |-> p.name, pos |-> p.pos, ppg |-> p.ppg,
     value |-> trade_value(z, p.tgt_pg, p.rush_att_pg)]

\* pos_pool.setdefault(pos, []).append(ppg)
pool_append(pool, pos, ppg) ==
    IF pos \in DOMAIN pool THEN [pool EXCEPT ![pos] = Append(@, ppg)]
    ELSE pool @@ (pos :> <<ppg>>)

\* pos_pool.get(pos, [])
pool_get(pool, pos) == IF pos \in DOMAIN pool THEN pool[pos] ELSE <<>>

\* a < b raises TypeError: None against a string
incomparable(a, b) == a # b /\ (a = None \/ b = None)

\* place of a key component in the order; None is never ordered against a
\* string in a sort that does not raise
key_part(v) == IF v = None THEN 0 ELSE str_rank(v)

\* key=lambda x: (x["value"], ...): ascending value
trade_key_ascending(x) == <<x.value, key_part(x.pos), key_part(x.name)>>

\* key=lambda x: (-x["value"], x["pos"], x["name"])
trade_key(x) == <<-x.value, key_part(x.pos), key_part(x.name)>>

\* values.sort raises: two keys agree up to a component where one holds None
\* and the other a string
sort_raises(vs) ==
    \E i, j \in 1..Len(vs) :
        /\ vs[i].value = vs[j].value
        /\ \/ incomparable(vs[i].pos, vs[j].pos)
           \/ vs[i].pos = vs[j].pos /\ incomparable(vs[i].name, vs[j].name)

\* values.sort(...) and the enumerate that sets overall_rank
overall_ranked(vs) ==
    LET sorted == sorted_values([i \in 1..Len(vs) |-> [k |-> trade_key(vs[i]), v |-> vs[i]]])
    IN  [i \in 1..Len(vs) |-> sorted[i] @@ [overall_rank |-> i]]

\* by_pos and the enumerate of each group: a row's place among the rows of its
\* position, in the order of values
pos_ranked(vs) ==
    [i \in 1..Len(vs) |->
        vs[i] @@ [pos_rank |-> Cardinality({j \in 1..i : vs[j].pos = vs[i].pos})]]

(* Inputs: season-to-date tables as build_szn_to_date leaves them, sorted by
   szn_key.  The player without name and position is one the catalog does not
   know. *)

\* number of players of the table
MaxTrade == 3

PpgValues == {1230, 1235, 1240}

TradeShapes ==
    {[name |-> None, pos |-> None, tgt_pg |-> 0,  rush_att_pg |-> 20],
     [name |-> "Al", pos |-> "QB", tgt_pg |-> 0,  rush_att_pg |-> 20],
     [name |-> "Bo", pos |-> "QB", tgt_pg |-> 0,  rush_att_pg |-> 20],
     [name |-> "Cy", pos |-> "RB", tgt_pg |-> 15, rush_att_pg |-> 0]}

TradePlayers == {[ppg |-> v] @@ sh : v \in PpgValues, sh \in TradeShapes}

TradeTables ==
    {[i \in DOMAIN t |-> [player_id |-> PlayerIds[i]] @@ t[i]] :
        t \in {u \in UNION {[1..k -> TradePlayers] : k \in 0..MaxTrade} :
                  \A i, j \in DOMAIN u :
                      i < j => ~key_lt(szn_key(u[j]), szn_key(u[i]))}}

InitTrade ==
    /\ pc = "trade_pool"
    /\ idx = 1
    /\ players \in TradeTables
    /\ pos_pool = <<>>
    /\ z_ppg = ZeroZ
    /\ values = <<>>
    /\ IdleWeek
    /\ IdleSzn
    /\ IdleUsage
    /\ IdleSos
    /\ IdleMain

\* one round of the loop that fills pos_pool
TradePool ==
    /\ pc = "trade_pool"
    /\ idx <= Len(players)
    /\ pos_pool' = pool_append(pos_pool, players[idx].pos, players[idx].ppg)
    /\ idx' = idx + 1
    /\ UNCHANGED <<pc, players, z_ppg, values, weekVars, sznVars, usageVars, sosVars, mainVars>>

TradePoolDone ==
    /\ pc = "trade_pool"
    /\ idx > Len(players)
    /\ pc' = "trade_values"
    /\ idx' = 1
    /\ UNCHANGED <<tradeVars, weekVars, sznVars, usageVars, sosVars, mainVars>>

\* one round of the loop that fills values
TradeValue ==
    /\ pc = "trade_values"
    /\ idx <= Len(players)
    /\ LET p == players[idx]
           z == zscore(pool_get(pos_pool, p.pos), p.ppg)
       IN  /\ z_ppg' = z
           /\ values' = Append(values, trade_row(p, z))
    /\ idx' = idx + 1
    /\ UNCHANGED <<pc, players, pos_pool, weekVars, sznVars, usageVars, sosVars, mainVars>>

\* the sort and overall_rank
TradeRank ==
    /\ pc = "trade_values"
    /\ idx > Len(players)
    /\ IF sort_raises(values)
       THEN pc' = "raised" /\ UNCHANGED values
       ELSE pc' = "trade_by_pos" /\ values' = overall_ranked(values)
    /\ UNCHANGED <<idx, players, pos_pool, z_ppg, weekVars, sznVars, usageVars, sosVars, mainVars>>

\* by_pos and pos_rank
TradePosRank ==
    /\ pc = "trade_by_pos"
    /\ values' = pos_ranked(values)
    /\ pc' = "trade_done"
    /\ UNCHANGED <<idx, players, pos_pool, z_ppg, weekVars, sznVars, usageVars, sosVars, mainVars>>

NextTrade == TradePool \/ TradePoolDone \/ TradeValue \/ TradeRank \/ TradePosRank

SpecTrade == InitTrade /\ [][NextTrade]_vars

\* the player whose value the loop built last, and that player's pool
last_valued == players[idx - 1]

last_pool == pool_get(pos_pool, last_valued.pos)

(* C7: for every season-to-date table the z-score of each player against the
   ppg pool of the player's position is computed without raising and is
   finite; it is 0 when all ppg values of the position are equal (a position
   of one player included), 0 for a player whose ppg equals the mean of the
   position, and 0 against an empty pool.  zscore never raises and never
   divides by zero, so what is stated is the three zeros. *)
C7_ZScoreZeroAtTiesAndMean ==
    (pc = "trade_values" /\ idx > 1) =>
        /\ (\A i \in 1..Len(last_pool) : last_pool[i] = last_pool[1])
               => z_ppg.sign = 0
        /\ Len(last_pool) * last_valued.ppg = sum_seq(last_pool)
               => z_ppg.sign = 0
        /\ zscore(<<>>, last_valued.ppg).sign = 0

\* a before b in the order of the table: value descending, then position,
\* then name
ranks_before(a, b) ==
    \/ a.value > b.value
    \/ /\ a.value = b.value
       /\ \/ key_part(a.pos) < key_part(b.pos)
          \/ a.pos = b.pos /\ key_part(a.name) <= key_part(b.name)

same_pos(i) == {j \in 1..Len(values) : values[j].pos = values[i].pos}

(* C8: in the trade-value table of n players overall_rank is a bijection onto
   1..n that orders the players by value descending, ties by position and
   then name; within each position group of k players pos_rank is a bijection
   onto 1..k, and of two players of one position the one with the smaller
   overall_rank has the smaller pos_rank. *)
C8_RanksAreOrderedBijections ==
    pc = "trade_done" =>
        LET n == Len(values)
        IN  /\ \A i \in 1..n : values[i].overall_rank \in 1..n
            /\ \A i, j \in 1..n :
                   i # j => values[i].overall_rank # values[j].overall_rank
            /\ \A i, j \in 1..n :
                   values[i].overall_rank < values[j].overall_rank
                       => ranks_before(values[i], values[j])
            /\ \A i \in 1..n :
                   /\ values[i].pos_rank \in 1..Cardinality(same_pos(i))
                   /\ \A j \in same_pos(i) :
                          /\ i # j => values[i].pos_rank # values[j].pos_rank
                          /\ values[i].overall_rank < values[j].overall_rank
                                 => values[i].pos_rank < values[j].pos_rank

\* a finished table of three players in which two players of one position tie
\* on value and differ in name, two players of different positions tie, and
\* the sort moved the first player of the season-to-date table
C8_Witness ==
    /\ pc = "trade_done"
    /\ Len(values) = 3
    /\ \E i, j \in 1..3 :
           /\ i # j
           /\ values[i].pos = values[j].pos
           /\ values[i].value = values[j].value
           /\ values[i].name # values[j].name
    /\ \E i, j \in 1..3 :
           /\ values[i].pos # values[j].pos
           /\ values[i].value = values[j].value
    /\ values[1].player_id # players[1].player_id

-----------------------------------------------------------------------------
(* build_szn_to_date: names, positions and the order of the table *)

\* the places <<week, index>> of the records the loops have consumed
seen_places ==
    UNION {{<<w, i>> : i \in {j \in 1..Len(weekly_files[w]) : w < wk \/ (w = wk /\ j < idx)}} :
              w \in 1..Len(weekly_files)}

\* the consumed records of pid that carry a non-empty value under key
nonempty_places(pid, key) ==
    {q \in seen_places :
        /\ weekly_files[q[1]][q[2]].player_id = pid
        /\ truthy(get(weekly_files[q[1]][q[2]], key))}

\* the value of the earliest of them in iteration order
first_nonempty(pid, key) ==
    LET P == nonempty_places(pid, key)
        q == CHOOSE x \in P : \A y \in P : x[1] < y[1] \/ (x[1] = y[1] /\ x[2] <= y[2])
    IN  weekly_files[q[1]][q[2]][key]

\* the name the sort orders by
name_text(x) == IF x.name = None THEN "" ELSE x.name

(* C11: in build_szn_to_date a player's name and pos are the first non-empty
   name and pos met for the player_id in the iteration order of the weekly
   sets; at every point of the loop the accumulator holds that first value,
   so no later record changes it; the final table carries it and is ordered
   by ppg descending, ties by name ascending. *)
C11_FirstNameKeptAndTableSorted ==
    /\ \A a \in 1..Len(agg) : \A key \in {"name", "pos"} :
           nonempty_places(agg[a].player_id, key) # {}
               => agg[a][key] = first_nonempty(agg[a].player_id, key)
    /\ pc = "szn_done" =>
           /\ \A t \in 1..Len(table) : \A key \in {"name", "pos"} :
                  nonempty_places(table[t].player_id, key) # {}
                      => table[t][key] = first_nonempty(table[t].player_id, key)
           /\ \A t, u \in 1..Len(table) :
                  t < u =>
                      \/ table[t].ppg > table[u].ppg
                      \/ /\ table[t].ppg = table[u].ppg
                         /\ str_rank(name_text(table[t])) <= str_rank(name_text(table[u]))

\* a finished table of two players who tie on ppg, each of whom met a second,
\* different name after the first, and whose order the sort reversed
C11_Witness ==
    /\ pc = "szn_done"
    /\ Len(table) = 2
    /\ table[1].ppg = table[2].ppg
    /\ table[1].name # table[2].name
    /\ table[1].player_id # agg[1].player_id
    /\ \A t \in 1..2 :
           \E q \in nonempty_places(table[t].player_id, "name") :
               weekly_files[q[1]][q[2]].name # table[t].name

-----------------------------------------------------------------------------
(* build_sos_defense_vs_pos *)

\* the negation of `if not opp or not pos: continue`
sos_counts(r) == truthy(get(r, "opp")) /\ truthy(get(r, "pos"))

\* position of the key (opp, pos) in allowed, 0 when it has no entry yet
allowed_index(al, opp, pos) ==
    IF \E i \in 1..Len(al) : al[i].def_team = opp /\ al[i].pos = pos
    THEN CHOOSE i \in 1..Len(al) : al[i].def_team = opp /\ al[i].pos = pos
    ELSE 0

\* the body of the inner loop
sos_record(al, r) ==
    IF ~sos_counts(r) THEN al
    ELSE LET opp == get(r, "opp")
             pos == get(r, "pos")
             a1  == IF allowed_index(al, opp, pos) = 0
                    THEN Append(al, [def_team |-> opp, pos |-> pos, pts |-> 0, games |-> 0])
                    ELSE al
             i   == allowed_index(a1, opp, pos)
         IN  [a1 EXCEPT ![i] = [@ EXCEPT !.pts   = @ + num_get(r, "fantasy_pts"),
                                         !.games = @ + 1]]

\* `for r in rows` over one weekly set
RECURSIVE sos_rows(_, _)
sos_rows(al, rs) ==
    IF rs = <<>> THEN al ELSE sos_rows(sos_record(al, rs[1]), Tail(rs))

\* one row of the table; pts_allowed_pg in hundredths
sos_row(a) ==
    [def_team |-> a.def_team, pos |-> a.pos,
     pts_allowed_pg |-> round_half_even(a.pts, max(1, a.games)),
     games |-> a.games]

\* key=lambda x: (x["pos"], x["pts_allowed_pg"]): ascending points
sos_key_ascending(x) == <<str_rank(x.pos), x.pts_allowed_pg>>

\* key=lambda x: (x["pos"], -x["pts_allowed_pg"])
sos_key(x) == <<str_rank(x.pos), -x.pts_allowed_pg>>

\* the table, built in the order of allowed and then sorted
sos_sorted(al) ==
    sorted_values([i \in 1..Len(al) |-> [k |-> sos_key(sos_row(al[i])), v |-> sos_row(al[i])]])

(* Inputs: weekly sets of canonical rows; what the aggregation reads of a row
   is opp, pos and fantasy_pts (multiples of 0.04, so that no average is a
   tie of the rounding). *)
SosShapes ==
    {[opp |-> "PHI", pos |-> "QB", fantasy_pts |-> 248],
     [opp |-> "NYG", pos |-> "QB", fantasy_pts |-> 100],
     [opp |-> "PHI", pos |-> "RB", fantasy_pts |-> 0],
     [opp |-> "",    pos |-> "QB", fantasy_pts |-> 100],
     [opp |-> "NYG", pos |-> None, fantasy_pts |-> 248]}

SosRows == {[player_id |-> "p1"] @@ sh : sh \in SosShapes}

SosSets == UNION {[1..k -> SosRows] : k \in {0, 1, 2}}

InitSos ==
    /\ pc = "sos"
    /\ idx = 1
    /\ history \in [1..MaxWeeks -> SosSets]
    /\ allowed = <<>>
    /\ sos_table = <<>>
    /\ IdleWeek
    /\ IdleSzn
    /\ IdleUsage
    /\ IdleTrade
    /\ IdleMain

\* `for rows in history`: one weekly set
SosWeek ==
    /\ pc = "sos"
    /\ idx <= Len(history)
    /\ allowed' = sos_rows(allowed, history[idx])
    /\ idx' = idx + 1
    /\ UNCHANGED <<pc, history, sos_table, weekVars, sznVars, usageVars, tradeVars, mainVars>>

\* the table is built, sorted and returned
SosTable ==
    /\ pc = "sos"
    /\ idx > Len(history)
    /\ sos_table' = sos_sorted(allowed)
    /\ pc' = "sos_done"
    /\ UNCHANGED <<idx, history, allowed, weekVars, sznVars, usageVars, tradeVars, mainVars>>

NextSos == SosWeek \/ SosTable

SpecSos == InitSos /\ [][NextSos]_vars

\* the records of the history, in iteration order
RECURSIVE flatten(_)
flatten(h) == IF h = <<>> THEN <<>> ELSE h[1] \o flatten(Tail(h))

\* the records that have both opp and pos non-empty
attributed == {i \in 1..Len(flatten(history)) :
                  LET r == flatten(history)[i]
                  IN  r.opp # None /\ r.opp # "" /\ r.pos # None /\ r.pos # ""}

\* the records of one (opp, pos) pair
contributing(opp, pos) ==
    {i \in attributed : flatten(history)[i].opp = opp /\ flatten(history)[i].pos = pos}

pts_of(opp, pos) ==
    sum_seq([i \in 1..Len(flatten(history)) |->
                IF i \in contributing(opp, pos) THEN flatten(history)[i].fantasy_pts ELSE 0])

(* C12: for every multi-week history the table has exactly one row per
   (opp, pos) pair that occurs in a record with both opp and pos non-empty
   and no other row; records missing opp or pos contribute to no row; a row's
   games is the number of contributing records and pts_allowed_pg the sum of
   their fantasy_pts divided by games, rounded to 2 decimals; rows are
   ordered by pos ascending, then pts_allowed_pg descending. *)
C12_OneRowPerDefensePosition ==
    pc = "sos_done" =>
        /\ \A i \in attributed :
               \E t \in 1..Len(sos_table) :
                   /\ sos_table[t].def_team = flatten(history)[i].opp
                   /\ sos_table[t].pos = flatten(history)[i].pos
        /\ \A t, u \in 1..Len(sos_table) :
               (sos_table[t].def_team = sos_table[u].def_team
                    /\ sos_table[t].pos = sos_table[u].pos) => t = u
        /\ \A t \in 1..Len(sos_table) :
               LET c == contributing(sos_table[t].def_team, sos_table[t].pos)
               IN  /\ c # {}
                   /\ sos_table[t].games = Cardinality(c)
                   /\ sos_table[t].pts_allowed_pg =
                          round_half_even(pts_of(sos_table[t].def_team, sos_table[t].pos),
                                          Cardinality(c))
        /\ \A t, u \in 1..Len(sos_table) :
               t < u =>
                   \/ str_rank(sos_table[t].pos) < str_rank(sos_table[u].pos)
                   \/ /\ sos_table[t].pos = sos_table[u].pos
                      /\ sos_table[t].pts_allowed_pg >= sos_table[u].pts_allowed_pg

\* a finished table with two defenses of one position, one of them met in two
\* records, the sort having moved the first accumulator, and a record without
\* opp or pos in the history
C12_Witness ==
    /\ pc = "sos_done"
    /\ Len(sos_table) = 2
    /\ sos_table[1].pos = sos_table[2].pos
    /\ sos_table[1].pts_allowed_pg > sos_table[2].pts_allowed_pg
    /\ sos_table[1].def_team # allowed[1].def_team
    /\ \E t \in 1..2 : sos_table[t].games = 2
    /\ Cardinality(attributed) < Len(flatten(history))

-----------------------------------------------------------------------------
(* main of build_stats_and_usage.py *)

\* build_szn_to_date(weeks, weekly_files) as one call
RECURSIVE szn_rows(_, _)
szn_rows(a, rs) == IF rs = <<>> THEN a ELSE szn_rows(szn_record(a, rs[1]), Tail(rs))

RECURSIVE szn_files(_, _)
szn_files(a, files) ==
    IF files = <<>> THEN a ELSE szn_files(szn_rows(a, files[1]), Tail(files))

build_szn_to_date(files) == szn_table(szn_files(<<>>, files))

\* build_sos_defense_vs_pos(history) as one call
RECURSIVE sos_files(_, _)
sos_files(al, files) ==
    IF files = <<>> THEN al ELSE sos_files(sos_rows(al, files[1]), Tail(files))

build_sos_defense_vs_pos(files) == sos_sorted(sos_files(<<>>, files))

\* build_usage_shares(week_rows) as one call: the totals, then the rows of the
\* records that have a team
RECURSIVE usage_totals(_, _, _)
usage_totals(totals, rs, key) ==
    IF rs = <<>> THEN totals
    ELSE usage_totals(IF truthy(get(rs[1], "team"))
                      THEN add_total(totals, rs[1].team, num_get(rs[1], key))
                      ELSE totals,
                      Tail(rs), key)

RECURSIVE usage_rows(_, _, _)
usage_rows(rs, tgt, car) ==
    IF rs = <<>> THEN <<>>
    ELSE (IF truthy(get(rs[1], "team")) THEN <<usage_row(rs[1], tgt, car)>> ELSE <<>>)
             \o usage_rows(Tail(rs), tgt, car)

build_usage_shares(rs) ==
    usage_rows(rs, usage_totals(<<>>, rs, "targets"), usage_totals(<<>>, rs, "rush_att"))

\* range(1, WEEK + 1): the current week among the prior weeks
prior_weeks_inclusive(W) == [i \in 1..W |-> i]

\* range(1, WEEK)
prior_weeks(W) == [i \in 1..(W - 1) |-> i]

(* Inputs: the current week and, for each week, the rows build_week_stats
   returns for it; a week's rows may hold one player_id twice. *)

\* largest current week
MaxWEEK == 3

MainWeekSets ==
    {ws \in WeekSets :
        \A i \in 1..Len(ws) : ws[i].name = (IF ws[i].player_id = "p1" THEN "Al" ELSE "Bo")}

InitMain ==
    /\ pc = "main"
    /\ idx = 1
    /\ WEEK \in 1..MaxWEEK
    /\ feed \in [1..WEEK -> MainWeekSets]
    /\ fetched = <<>>
    /\ weekly_rows = <<>>
    /\ szn = <<>>
    /\ usage = <<>>
    /\ sos = <<>>
    /\ IdleWeek
    /\ IdleSzn
    /\ IdleUsage
    /\ IdleTrade
    /\ IdleSos

\* this_week = build_week_stats(SEASON, WEEK, catalog); weekly_rows = [this_week]
MainThisWeek ==
    /\ pc = "main"
    /\ fetched' = <<WEEK>>
    /\ weekly_rows' = <<feed[WEEK]>>
    /\ pc' = "main_prior"
    /\ idx' = 1
    /\ UNCHANGED <<WEEK, feed, szn, usage, sos, weekVars, sznVars, usageVars, tradeVars, sosVars>>

\* one round of `for w in range(1, WEEK)`
MainPriorWeek ==
    /\ pc = "main_prior"
    /\ idx <= Len(prior_weeks(WEEK))
    /\ LET w == prior_weeks(WEEK)[idx]
       IN  /\ fetched' = Append(fetched, w)
           /\ weekly_rows' = Append(weekly_rows, feed[w])
    /\ idx' = idx + 1
    /\ UNCHANGED <<pc, WEEK, feed, szn, usage, sos, weekVars, sznVars, usageVars, tradeVars, sosVars>>

\* szn = build_szn_to_date(list(range(1, WEEK+1)), weekly_rows)
MainSzn ==
    /\ pc = "main_prior"
    /\ idx > Len(prior_weeks(WEEK))
    /\ szn' = build_szn_to_date(weekly_rows)
    /\ pc' = "main_usage"
    /\ UNCHANGED <<idx, WEEK, feed, fetched, weekly_rows, usage, sos,
                   weekVars, sznVars, usageVars, tradeVars, sosVars>>

\* usage = build_usage_shares(this_week)
MainUsage ==
    /\ pc = "main_usage"
    /\ usage' = build_usage_shares(weekly_rows[1])
    /\ pc' = "main_sos"
    /\ UNCHANGED <<idx, WEEK, feed, fetched, weekly_rows, szn, sos,
                   weekVars, sznVars, usageVars, tradeVars, sosVars>>

\* sos = build_sos_defense_vs_pos(weekly_rows)
MainSos ==
    /\ pc = "main_sos"
    /\ sos' = build_sos_defense_vs_pos(weekly_rows)
    /\ pc' = "main_done"
    /\ UNCHANGED <<idx, WEEK, feed, fetched, weekly_rows, szn, usage,
                   weekVars, sznVars, usageVars, tradeVars, sosVars>>

NextMain == MainThisWeek \/ MainPriorWeek \/ MainSzn \/ MainUsage \/ MainSos

SpecMain == InitMain /\ [][NextMain]_vars

\* no player_id twice in the rows of one week
ids_unique(ws) == \A i, j \in 1..Len(ws) : ws[i].player_id = ws[j].player_id => i = j

(* C13: in one run of main, for any WEEK >= 1, the history handed to
   build_szn_to_date and build_sos_defense_vs_pos holds exactly one record
   set for each week 1..WEEK, the current week once and each prior week once,
   none twice and none missing; so no player's games exceeds WEEK when ids
   are unique within every week. *)
C13_HistoryHoldsEachWeekOnce ==
    pc \in {"main_usage", "main_sos", "main_done"} =>
        /\ Len(weekly_rows) = WEEK
        /\ Len(fetched) = WEEK
        /\ \A w \in 1..WEEK :
               /\ Cardinality({i \in 1..Len(fetched) : fetched[i] = w}) = 1
               /\ \A i \in 1..Len(fetched) : fetched[i] = w => weekly_rows[i] = feed[w]
        /\ (\A w \in 1..WEEK : ids_unique(feed[w]))
               => \A t \in 1..Len(szn) : szn[t].games <= WEEK
        /\ pc = "main_done" => sos = build_sos_defense_vs_pos(weekly_rows)

\* a finished run of the largest week with ids unique in every week, weeks
\* that differ, and a player who played every week
C13_Witness ==
    /\ pc = "main_done"
    /\ WEEK = MaxWEEK
    /\ \A w \in 1..WEEK : ids_unique(feed[w])
    /\ feed[1] # feed[WEEK]
    /\ \E t \in 1..Len(szn) : szn[t].games = WEEK
    /\ Len(usage) > 0
    /\ Len(sos) > 0

=============================================================================
